---- MODULE Spec2Model ----
(***************************************************************************)
(* Verification model of the arch_test harness of MAPF-Planner             *)
(* (src/arch_test/arch_test/utils.py and test_manager.py) and of the parts *)
(* of arch_components (Manager, Planner) the harness drives.               *)
(*                                                                         *)
(* The harness nodes (GoalPublisher, ManagerTestClient, the frame          *)
(* broadcasters, AgentTestExecutor) are translated from the source.  The   *)
(* Manager and the Planner live in arch_components, which is not part of   *)
(* the sources at hand; their handlers are modelled from the               *)
(* specification and are marked so in MODEL_MAP.json.                      *)
(*                                                                         *)
(* The sub-systems share the variables; each has its own specification:   *)
(*   SpecManager  goals channel, agent_request service, Manager            *)
(*   SpecClient   ManagerTestClient and the agent_request service          *)
(*   SpecPlanner  transform broadcasters, Planner                          *)
(*   SpecAgent    AgentTestExecutor.request_and_wait_for_response          *)
(*   SpecSol      AgentTestExecutor.sol_callback                           *)
(*   SpecConc     AgentTestExecutor, calling thread and executor thread    *)
(*   SpecTests    test_manager.py: main, the test functions, the executor  *)
(* Durations are in milliseconds, coordinates are integers.                *)
(***************************************************************************)
EXTENDS Integers, Sequences, FiniteSets, TLC

VARIABLES
    \* ---- Manager (arch_components.manager) ----
    unassigned_agents,  \* ordered collection of agent ids awaiting a path
    unassigned_goals,   \* ordered collection of goals not yet assigned
    plan_computed,      \* TRUE once a plan has assigned a goal to an agent
    n_handled,          \* number of agent_callback invocations so far
    last_call,          \* the last agent_callback invocation: its request and response,
                        \* unassigned_agents and unassigned_goals when it was entered
    \* ---- 'goals' topic and GoalPublisher ----
    goal_calls,         \* arguments of the publish_goal calls, in call order
    goals_topic,        \* Position messages in flight on 'goals'
    \* ---- 'agent_request' service and ManagerTestClient ----
    n_calls,            \* requests made so far (create_request and direct calls)
    srv_requests,       \* requests in flight to the Manager
    srv_responses,      \* responses in flight to the client
    response,           \* ManagerTestClient.response: the future of the last call_async
    \* ---- transform broadcasters and Planner ----
    ff,                 \* FixedFrameBroadcaster: parent_id, child_id, pos
    tf_sent,            \* every transform handed to sendTransform, in order
    tf_topic,           \* transforms in flight to the Planner
    n_ticks,            \* timer ticks of the FixedFrameBroadcaster so far
    frame_ids,          \* Planner: the known coordinate-frame ids
    \* ---- AgentTestExecutor, calling thread ----
    service_ready,      \* what cli.service_is_ready() returns now
    op,                 \* the method the calling thread runs: none / request / reconnect
    phase,              \* disconect_and_reconnect: 1 = disconnect exchange, 2 = idle exchange
    pc,                 \* position inside request_and_wait_for_response
    arg_msg,            \* its agent_msg argument
    resp,               \* its local variable response
    sleep_time,         \* its local variable sleep_time
    n_polls,            \* service_is_ready() polls that returned false (saturating)
    pending,            \* the request cli.call is blocked on, in flight to the server
    reply,              \* the response in flight back to cli.call
    trace,              \* events of the calling thread: requests, responses, sleeps, returns
    error,              \* TRUE if the method has raised
    \* ---- AgentTestExecutor, executor thread ----
    agent_id,           \* AgentTestExecutor.agent_id
    last_msg,           \* the AgentPaths message sol_callback handled last
    log,                \* entries written through get_logger().info, in order
    \* ---- observers ----
    client_calls,       \* the arguments of every ManagerTestClient.create_request call
    cb_pcs,             \* the positions the calling thread stood at when sol_callback ran
    \* ---- test_manager.py, main thread ----
    tests,              \* the test functions this run executes, in order
    ti,                 \* index into tests of the test that runs now
    tpc,                \* source line of test_manager.py the main thread executes next
    rclpy_ok,           \* TRUE between rclpy.init() and rclpy.shutdown()
    nodes,              \* the nodes created and not yet destroyed
    executor,           \* MultiThreadedExecutor: none / created / spinning / shutdown
    thread,             \* executor_thread: none / running / finished / joined
    life,               \* life-cycle events of the test that runs now, in order
    reads,              \* what each executed assertion read, in order
    failed              \* TRUE once an assertion or a read has raised

mgrVars == <<unassigned_agents, unassigned_goals, plan_computed, n_handled, last_call,
             goal_calls, goals_topic, n_calls, srv_requests, srv_responses, response>>
plnVars == <<ff, tf_sent, tf_topic, n_ticks, frame_ids>>
agtVars == <<service_ready, op, phase, pc, arg_msg, resp, sleep_time, n_polls,
             pending, reply, trace, error>>
solVars == <<agent_id, last_msg, log>>
obsVars == <<client_calls, cb_pcs>>
tstVars == <<tests, ti, tpc, rclpy_ok, nodes, executor, thread, life, reads, failed>>
vars == <<mgrVars, plnVars, agtVars, solVars, obsVars, tstVars>>

-----------------------------------------------------------------------------
(* Bounds of the model *)

MaxCalls == 2        \* agent requests made in one run
MaxGoals == 2        \* publish_goal calls in one run
MaxTicks == 2        \* timer ticks of the FixedFrameBroadcaster in one run
MaxBroadcasts == 2   \* transforms the TestFrameBroadcaster sends in one run
MaxRetries == 2      \* RETRY responses the server gives in one run
MaxPolls == 2        \* failed readiness polls that are counted
MaxPathsLen == 2     \* AssignedPath entries in one AgentPaths message
MaxPathsMsgs == 2    \* AgentPaths messages delivered in one run

-----------------------------------------------------------------------------
(* Message types and enumerations *)

None == "None"

IDLE == "IDLE"
AGENT_DISCONNECTED == "AGENT_DISCONNECTED"
ManagerRequestTypes == {IDLE, AGENT_DISCONNECTED}

WAIT_PLAN == "WAIT_PLAN"
RETRY == "RETRY"
ManagerResponseTypes == {WAIT_PLAN, RETRY}

AgentIds == {"agent_1", "agent_2"}

\* arch_interfaces.msg.Position
Position(x, y, w) == [x |-> x, y |-> y, w |-> w]
Goals == {Position(50, 50, 1), Position(50, 20, 2)}

\* arch_interfaces.srv.AgentRequest
Request(agent_msg, id) == [agent_msg |-> agent_msg, agent_id |-> id]
Response(error_msg, args) == [error_msg |-> error_msg, args |-> args]

\* Sequence helpers
In(x, s) == \E i \in 1..Len(s) : s[i] = x
Count(x, s) == Cardinality({i \in 1..Len(s) : s[i] = x})
RemoveAt(s, i) == [k \in 1..(Len(s) - 1) |-> IF k < i THEN s[k] ELSE s[k + 1]]
Last(s) == s[Len(s)]

-----------------------------------------------------------------------------
(* The Manager (arch_components.manager), modelled from the specification:  *)
(* an agent enters unassigned_agents on IDLE and leaves it on               *)
(* AGENT_DISCONNECTED; a goal received on 'goals' is accumulated in         *)
(* unassigned_goals until it is assigned; an IDLE request handled while     *)
(* goals are pending and no plan has been computed is answered WAIT_PLAN.   *)
(* Where the specification is silent (the answer to the other requests, the *)
(* pair a plan assigns) the model leaves the choice open.                   *)

NoRequest == Request(None, None)
NoResponse == Response(None, <<>>)
ManagerRetryArgs == <<"0.5">>
ManagerResponses == {Response(WAIT_PLAN, <<>>), Response(RETRY, ManagerRetryArgs)}

\* the observers are empty and no test function runs
ObsInit ==
    /\ client_calls = <<>>
    /\ cb_pcs = {}

NoTestInit ==
    /\ tests = <<>>
    /\ ti = 0
    /\ tpc = 0
    /\ rclpy_ok = FALSE
    /\ nodes = {}
    /\ executor = "none"
    /\ thread = "none"
    /\ life = <<>>
    /\ reads = <<>>
    /\ failed = FALSE

\* a step of a node outside the test functions
HarnessIdle == UNCHANGED <<obsVars, tstVars>>

MgrInit ==
    /\ unassigned_agents = <<>>
    /\ unassigned_goals = <<>>
    /\ plan_computed = FALSE
    /\ n_handled = 0
    /\ last_call = [request |-> NoRequest, response |-> NoResponse,
                    before |-> <<>>, goals |-> <<>>]
    /\ goal_calls = <<>>
    /\ goals_topic = <<>>
    /\ n_calls = 0
    /\ srv_requests = <<>>
    /\ srv_responses = <<>>
    /\ response = [call |-> 0, done |-> FALSE, result |-> NoResponse]

\* unassigned_agents after agent_callback has handled the request
C1_AgentsAfter_idle_ignored(agents, request) ==
    IF request.agent_msg = AGENT_DISCONNECTED
    THEN SelectSeq(agents, LAMBDA a : a # request.agent_id)
    ELSE agents

C2_AgentsAfter_keep_on_disconnect(agents, request) ==
    IF request.agent_msg = IDLE /\ ~In(request.agent_id, agents)
    THEN Append(agents, request.agent_id)
    ELSE agents

AgentsAfter(agents, request) ==
    IF request.agent_msg = IDLE
    THEN IF In(request.agent_id, agents) THEN agents
         ELSE Append(agents, request.agent_id)
    ELSE IF request.agent_msg = AGENT_DISCONNECTED
    THEN SelectSeq(agents, LAMBDA a : a # request.agent_id)
    ELSE agents

\* the responses agent_callback may give to the request
C3_ResponsesFor_retry(request, goals, plan) ==
    {Response(RETRY, ManagerRetryArgs)}

ResponsesFor(request, goals, plan) ==
    IF request.agent_msg = IDLE /\ goals # <<>> /\ ~plan
    THEN {Response(WAIT_PLAN, <<>>)}
    ELSE ManagerResponses

\* Manager.agent_callback(request, response), answering with r
agent_callback(request, r) ==
    /\ r \in ResponsesFor(request, unassigned_goals, plan_computed)
    /\ unassigned_agents' = AgentsAfter(unassigned_agents, request)
    /\ n_handled' = n_handled + 1
    /\ last_call' = [request |-> request, response |-> r,
                     before |-> unassigned_agents, goals |-> unassigned_goals]
    /\ UNCHANGED <<unassigned_goals, plan_computed>>

\* Manager's subscription callback on 'goals'
goal_callback ==
    /\ goals_topic # <<>>
    /\ unassigned_goals' = Append(unassigned_goals, Head(goals_topic))
    /\ goals_topic' = Tail(goals_topic)
    /\ UNCHANGED <<unassigned_agents, plan_computed, n_handled, last_call, goal_calls,
                   n_calls, srv_requests, srv_responses, response>>
    /\ UNCHANGED <<plnVars, agtVars, solVars>>

\* a computed plan assigns one pending goal to one waiting agent
assign_plan ==
    /\ unassigned_agents # <<>>
    /\ unassigned_goals # <<>>
    /\ \E i \in 1..Len(unassigned_agents), j \in 1..Len(unassigned_goals) :
          /\ unassigned_agents' = RemoveAt(unassigned_agents, i)
          /\ unassigned_goals' = RemoveAt(unassigned_goals, j)
    /\ plan_computed' = TRUE
    /\ UNCHANGED <<n_handled, last_call, goal_calls, goals_topic, n_calls,
                   srv_requests, srv_responses, response>>
    /\ UNCHANGED <<plnVars, agtVars, solVars>>

\* the service 'agent_request': the executor hands the next request to agent_callback
serve_agent_request ==
    /\ srv_requests # <<>>
    /\ \E r \in ManagerResponses :
          /\ agent_callback(Head(srv_requests).request, r)
          /\ srv_responses' = Append(srv_responses,
                 [call |-> Head(srv_requests).call, result |-> r])
    /\ srv_requests' = Tail(srv_requests)
    /\ UNCHANGED <<goal_calls, goals_topic, n_calls, response>>
    /\ UNCHANGED <<plnVars, agtVars, solVars>>

-----------------------------------------------------------------------------
(* GoalPublisher and ManagerTestClient (utils.py, test_manager.py) *)

C4_publish_goal_twice(goal) ==
    /\ Len(goal_calls) < MaxGoals
    /\ goal_calls' = Append(goal_calls, goal)
    /\ goals_topic' = goals_topic \o <<goal, goal>>
    /\ UNCHANGED <<unassigned_agents, unassigned_goals, plan_computed, n_handled,
                   last_call, n_calls, srv_requests, srv_responses, response>>
    /\ UNCHANGED <<plnVars, agtVars, solVars>>

C12_publish_goal_buffered(goal) ==
    /\ Len(goal_calls) < MaxGoals
    /\ goal_calls' = Append(goal_calls, goal)
    /\ goals_topic' = IF goal_calls = <<>> THEN goals_topic
                      ELSE goals_topic \o <<Last(goal_calls), goal>>
    /\ UNCHANGED <<unassigned_agents, unassigned_goals, plan_computed, n_handled,
                   last_call, n_calls, srv_requests, srv_responses, response>>
    /\ UNCHANGED <<plnVars, agtVars, solVars>>

\* GoalPublisher.publish_goal(goal): self.publisher.publish(goal)
publish_goal(goal) ==
    /\ Len(goal_calls) < MaxGoals
    /\ goal_calls' = Append(goal_calls, goal)
    /\ goals_topic' = Append(goals_topic, goal)
    /\ UNCHANGED <<unassigned_agents, unassigned_goals, plan_computed, n_handled,
                   last_call, n_calls, srv_requests, srv_responses, response>>
    /\ UNCHANGED <<plnVars, agtVars, solVars>>

\* ManagerTestClient.create_request(agent_msg, agent_id):
C11_create_request_resend(agent_msg, id) ==
    /\ n_calls < MaxCalls
    /\ n_calls' = n_calls + 1
    /\ srv_requests' = srv_requests \o
           <<[call |-> n_calls + 1, request |-> Request(agent_msg, id)],
             [call |-> n_calls + 1, request |-> Request(agent_msg, id)]>>
    /\ response' = [call |-> n_calls + 1, done |-> FALSE, result |-> NoResponse]
    /\ UNCHANGED <<unassigned_agents, unassigned_goals, plan_computed, n_handled,
                   last_call, goal_calls, goals_topic, srv_responses>>
    /\ UNCHANGED <<plnVars, agtVars, solVars>>

\* self.response = self.cli.call_async(AgentRequest.Request(...))
create_request(agent_msg, id) ==
    /\ n_calls < MaxCalls
    /\ n_calls' = n_calls + 1
    /\ srv_requests' = Append(srv_requests,
           [call |-> n_calls + 1, request |-> Request(agent_msg, id)])
    /\ response' = [call |-> n_calls + 1, done |-> FALSE, result |-> NoResponse]
    /\ UNCHANGED <<unassigned_agents, unassigned_goals, plan_computed, n_handled,
                   last_call, goal_calls, goals_topic, srv_responses>>
    /\ UNCHANGED <<plnVars, agtVars, solVars>>

\* the client's executor completes the future of the call the response answers
deliver_response ==
    /\ srv_responses # <<>>
    /\ response' = IF Head(srv_responses).call = response.call
                   THEN [response EXCEPT !.done = TRUE,
                                         !.result = Head(srv_responses).result]
                   ELSE response
    /\ srv_responses' = Tail(srv_responses)
    /\ UNCHANGED <<unassigned_agents, unassigned_goals, plan_computed, n_handled,
                   last_call, goal_calls, goals_topic, n_calls, srv_requests>>
    /\ UNCHANGED <<plnVars, agtVars, solVars>>

\* test_agent_requests: manager.agent_callback(req_mock, MagicMock()), called directly
test_agent_callback(agent_msg, id) ==
    /\ n_calls < MaxCalls
    /\ n_calls' = n_calls + 1
    /\ \E r \in ManagerResponses : agent_callback(Request(agent_msg, id), r)
    /\ UNCHANGED <<goal_calls, goals_topic, srv_requests, srv_responses, response>>
    /\ UNCHANGED <<plnVars, agtVars, solVars>>

\* a caller invokes client.create_request(agent_msg, id); the observer keeps
\* the arguments of the call
call_create_request(agent_msg, id) ==
    /\ create_request(agent_msg, id)
    /\ client_calls' = Append(client_calls, Request(agent_msg, id))
    /\ UNCHANGED <<cb_pcs, tstVars>>

NextManager ==
    \/ (\E g \in Goals : publish_goal(g)) /\ HarnessIdle
    \/ goal_callback /\ HarnessIdle
    \/ (\E m \in ManagerRequestTypes, a \in AgentIds : create_request(m, a)) /\ HarnessIdle
    \/ serve_agent_request /\ HarnessIdle
    \/ deliver_response /\ HarnessIdle
    \/ (\E m \in ManagerRequestTypes, a \in AgentIds : test_agent_callback(m, a)) /\ HarnessIdle
    \/ assign_plan /\ HarnessIdle

-----------------------------------------------------------------------------
(* Transform broadcasters (utils.py, test_manager.py) and the Planner.      *)
(* header.stamp, the clock reading, is not modelled.                        *)

Vector3(x, y, z) == [x |-> x, y |-> y, z |-> z]

\* tf2_ros.TransformStamped
TransformStamped(frame_id, child_frame_id, translation) ==
    [frame_id |-> frame_id, child_frame_id |-> child_frame_id,
     translation |-> translation]

\* FixedFrameBroadcaster(parent_frame_id, child_frame_id, pos, freq)
FixedFrameBroadcaster(parent_frame_id, child_frame_id, pos) ==
    [parent_id |-> parent_frame_id, child_id |-> child_frame_id, pos |-> pos]

ArenaBroadcaster == FixedFrameBroadcaster("world", "arena", Vector3(0, 0, 0))
FFConfigs == {ArenaBroadcaster,
              FixedFrameBroadcaster("arena", "agent_1", Vector3(1, 2, 3))}
AgentLocs == {<<4, 5, 6>>}

PlnInit(configs) ==
    /\ ff \in configs
    /\ tf_sent = <<>>
    /\ tf_topic = <<>>
    /\ n_ticks = 0
    /\ frame_ids = {}

\* TransformBroadcaster.sendTransform(t)
sendTransform(t) ==
    /\ tf_sent' = Append(tf_sent, t)
    /\ tf_topic' = Append(tf_topic, t)

C5_broadcast_timer_callback_swapped ==
    /\ n_ticks < MaxTicks
    /\ n_ticks' = n_ticks + 1
    /\ sendTransform(TransformStamped(ff.child_id, ff.parent_id,
                                      Vector3(ff.pos.x, ff.pos.y, ff.pos.z)))
    /\ UNCHANGED <<ff, frame_ids>>
    /\ UNCHANGED <<mgrVars, agtVars, solVars>>

C13_broadcast_timer_callback_z_from_y ==
    /\ n_ticks < MaxTicks
    /\ n_ticks' = n_ticks + 1
    /\ sendTransform(TransformStamped(ff.parent_id, ff.child_id,
                                      Vector3(ff.pos.x, ff.pos.y, ff.pos.y)))
    /\ UNCHANGED <<ff, frame_ids>>
    /\ UNCHANGED <<mgrVars, agtVars, solVars>>

\* FixedFrameBroadcaster.broadcast_timer_callback, run at every timer tick
broadcast_timer_callback ==
    /\ n_ticks < MaxTicks
    /\ n_ticks' = n_ticks + 1
    /\ sendTransform(TransformStamped(ff.parent_id, ff.child_id,
                                      Vector3(ff.pos.x, ff.pos.y, ff.pos.z)))
    /\ UNCHANGED <<ff, frame_ids>>
    /\ UNCHANGED <<mgrVars, agtVars, solVars>>

\* transforms of the TestFrameBroadcaster among those sent
TestBroadcasts == Len(tf_sent) - n_ticks

\* TestFrameBroadcaster.broadcast_arena
broadcast_arena ==
    /\ TestBroadcasts < MaxBroadcasts
    /\ sendTransform(TransformStamped("world", "arena", Vector3(1, 1, 1)))
    /\ UNCHANGED <<ff, n_ticks, frame_ids>>
    /\ UNCHANGED <<mgrVars, agtVars, solVars>>

\* TestFrameBroadcaster.broadcast_agent(agent_id, loc)
broadcast_agent(id, loc) ==
    /\ TestBroadcasts < MaxBroadcasts
    /\ sendTransform(TransformStamped("arena", id, Vector3(loc[1], loc[2], loc[3])))
    /\ UNCHANGED <<ff, n_ticks, frame_ids>>
    /\ UNCHANGED <<mgrVars, agtVars, solVars>>

\* Planner: a received transform makes its child frame a known frame
tf_callback ==
    /\ tf_topic # <<>>
    /\ frame_ids' = frame_ids \cup {Head(tf_topic).child_frame_id}
    /\ tf_topic' = Tail(tf_topic)
    /\ UNCHANGED <<ff, tf_sent, n_ticks>>
    /\ UNCHANGED <<mgrVars, agtVars, solVars>>

\* Planner.get_all_frame_ids()
get_all_frame_ids == frame_ids

NextPlanner ==
    \/ broadcast_timer_callback /\ HarnessIdle
    \/ broadcast_arena /\ HarnessIdle
    \/ (\E a \in AgentIds, loc \in AgentLocs : broadcast_agent(a, loc)) /\ HarnessIdle
    \/ tf_callback /\ HarnessIdle

-----------------------------------------------------------------------------
(* AgentTestExecutor, the calling thread (utils.py):                        *)
(* request_and_wait_for_response and disconect_and_reconnect.               *)
(* The 'agent_request' server is the environment: it answers a pending      *)
(* request with any response type; a RETRY response names a delay in        *)
(* args[0], as the protocol states.                                         *)

PollSleep == 100     \* sleep(0.1) between two readiness polls

\* float(s) of the strings the server sends, in milliseconds
FloatTable == ("0.5" :> 500) @@ ("2.0" :> 2000) @@ ("2" :> 2000)
FloatOf(s) == FloatTable[s]

\* the responses the server can give
RetryResponses == {Response(RETRY, <<"0.5">>), Response(RETRY, <<"2.0">>),
                   Response(RETRY, <<"2", "0.5">>)}
FinalResponses == {Response(WAIT_PLAN, <<>>)}

\* events of the calling thread
EvEnter(method, agent_msg) == [ev |-> "enter", method |-> method, agent_msg |-> agent_msg]
EvReady == [ev |-> "ready"]
EvRequest(request) == [ev |-> "request", request |-> request]
EvResponse(r) == [ev |-> "response", response |-> r]
EvSleep(t) == [ev |-> "sleep", t |-> t]
EvReturn == [ev |-> "return"]

Events(kind) == SelectSeq(trace, LAMBDA e : e.ev = kind)
RetriesGiven ==
    Len(SelectSeq(trace, LAMBDA e : e.ev = "response" /\ e.response.error_msg = RETRY))
    + (IF reply.error_msg = RETRY THEN 1 ELSE 0)

AgtInit(readys) ==
    /\ service_ready \in readys
    /\ op = "none"
    /\ phase = 0
    /\ pc = "idle"
    /\ arg_msg = None
    /\ resp = NoResponse
    /\ sleep_time = 0
    /\ n_polls = 0
    /\ pending = NoRequest
    /\ reply = NoResponse
    /\ trace = <<>>
    /\ error = FALSE

\* the main thread calls request_and_wait_for_response(agent_msg)
call_request_and_wait_for_response(agent_msg) ==
    /\ pc = "idle"
    /\ op' = "request"
    /\ arg_msg' = agent_msg
    /\ pc' = "poll"
    /\ trace' = Append(trace, EvEnter("request_and_wait_for_response", agent_msg))
    /\ UNCHANGED <<service_ready, phase, resp, sleep_time, n_polls, pending, reply, error>>
    /\ UNCHANGED <<mgrVars, plnVars, solVars>>

C17_disconect_and_reconnect_idle_first ==
    /\ pc = "idle"
    /\ op' = "reconnect"
    /\ phase' = 1
    /\ arg_msg' = IDLE
    /\ pc' = "poll"
    /\ trace' = Append(trace, EvEnter("disconect_and_reconnect", IDLE))
    /\ UNCHANGED <<service_ready, resp, sleep_time, n_polls, pending, reply, error>>
    /\ UNCHANGED <<mgrVars, plnVars, solVars>>

\* the main thread calls disconect_and_reconnect(): line 96 starts the first exchange
disconect_and_reconnect ==
    /\ pc = "idle"
    /\ op' = "reconnect"
    /\ phase' = 1
    /\ arg_msg' = AGENT_DISCONNECTED
    /\ pc' = "poll"
    /\ trace' = Append(trace, EvEnter("disconect_and_reconnect", AGENT_DISCONNECTED))
    /\ UNCHANGED <<service_ready, resp, sleep_time, n_polls, pending, reply, error>>
    /\ UNCHANGED <<mgrVars, plnVars, solVars>>

C9_ServiceIsReady_ignored == TRUE

\* self.cli.service_is_ready()
ServiceIsReady == service_ready

\* lines 87-88: while not self.cli.service_is_ready(): sleep(0.1)
poll_service ==
    /\ pc = "poll"
    /\ IF ServiceIsReady
       THEN /\ pc' = "call"
            /\ trace' = Append(trace, EvReady)
            /\ UNCHANGED n_polls
       ELSE /\ pc' = "poll"
            /\ n_polls' = IF n_polls < MaxPolls THEN n_polls + 1 ELSE n_polls
            /\ trace' = IF n_polls < MaxPolls THEN Append(trace, EvSleep(PollSleep))
                        ELSE trace
    /\ UNCHANGED <<service_ready, op, phase, arg_msg, resp, sleep_time, pending, reply, error>>
    /\ UNCHANGED <<mgrVars, plnVars, solVars>>

\* line 89: response = self.cli.call(Request(agent_msg, self.agent_id)), the request goes out
first_call ==
    /\ pc = "call"
    /\ pending' = Request(arg_msg, agent_id)
    /\ trace' = Append(trace, EvRequest(Request(arg_msg, agent_id)))
    /\ pc' = "wait"
    /\ UNCHANGED <<service_ready, op, phase, arg_msg, resp, sleep_time, n_polls, reply, error>>
    /\ UNCHANGED <<mgrVars, plnVars, solVars>>

\* cli.call returns: the response is assigned to the local variable response
receive_response ==
    /\ pc = "wait"
    /\ reply # NoResponse
    /\ resp' = reply
    /\ reply' = NoResponse
    /\ trace' = Append(trace, EvResponse(reply))
    /\ pc' = "check"
    /\ UNCHANGED <<service_ready, op, phase, arg_msg, sleep_time, n_polls, pending, error>>
    /\ UNCHANGED <<mgrVars, plnVars, solVars>>

C6_LoopCondition_once(r) ==
    r.error_msg = RETRY /\ Len(Events("response")) < 2

\* line 90: while response.error_msg == ManagerResponseTypes.RETRY
LoopCondition(r) == r.error_msg = RETRY

C7_SleepTimeOf_last_arg(r) == FloatOf(Last(r.args))

\* line 91: sleep_time = float(response.args[0])
SleepTimeOf(r) == FloatOf(r.args[1])

C8_check_retry_max_attempts ==
    /\ pc = "check"
    /\ LoopCondition(resp)
    /\ IF Len(Events("request")) < 2
       THEN /\ sleep_time' = SleepTimeOf(resp)
            /\ pc' = "sleep"
            /\ UNCHANGED error
       ELSE /\ error' = TRUE
            /\ pc' = "raised"
            /\ UNCHANGED sleep_time
    /\ UNCHANGED <<service_ready, op, phase, arg_msg, resp, n_polls, pending, reply, trace>>
    /\ UNCHANGED <<mgrVars, plnVars, solVars>>

\* lines 90-91: the loop test and, inside the loop, the delay read from the response;
\* a response without a parsable args[0] makes float() or the index raise
check_retry ==
    /\ pc = "check"
    /\ LoopCondition(resp)
    /\ IF resp.args # <<>> /\ resp.args[1] \in DOMAIN FloatTable
       THEN /\ sleep_time' = SleepTimeOf(resp)
            /\ pc' = "sleep"
            /\ UNCHANGED error
       ELSE /\ error' = TRUE
            /\ pc' = "raised"
            /\ UNCHANGED sleep_time
    /\ UNCHANGED <<service_ready, op, phase, arg_msg, resp, n_polls, pending, reply, trace>>
    /\ UNCHANGED <<mgrVars, plnVars, solVars>>

\* line 92: sleep(sleep_time)
do_sleep ==
    /\ pc = "sleep"
    /\ trace' = Append(trace, EvSleep(sleep_time))
    /\ pc' = "recall"
    /\ UNCHANGED <<service_ready, op, phase, arg_msg, resp, sleep_time, n_polls,
                   pending, reply, error>>
    /\ UNCHANGED <<mgrVars, plnVars, solVars>>

\* line 93: response = self.cli.call(Request(agent_msg, self.agent_id)), the request is resent
resend ==
    /\ pc = "recall"
    /\ pending' = Request(arg_msg, agent_id)
    /\ trace' = Append(trace, EvRequest(Request(arg_msg, agent_id)))
    /\ pc' = "wait"
    /\ UNCHANGED <<service_ready, op, phase, arg_msg, resp, sleep_time, n_polls, reply, error>>
    /\ UNCHANGED <<mgrVars, plnVars, solVars>>

\* the loop ends and request_and_wait_for_response returns; inside
\* disconect_and_reconnect line 97 then starts the second exchange, with the default IDLE
return_from_request ==
    /\ pc = "check"
    /\ ~LoopCondition(resp)
    /\ trace' = Append(trace, EvReturn)
    /\ IF op = "reconnect" /\ phase = 1
       THEN /\ phase' = 2
            /\ arg_msg' = IDLE
            /\ pc' = "poll"
       ELSE /\ pc' = "done"
            /\ UNCHANGED <<phase, arg_msg>>
    /\ UNCHANGED <<service_ready, op, resp, sleep_time, n_polls, pending, reply, error>>
    /\ UNCHANGED <<mgrVars, plnVars, solVars>>

\* the server of 'agent_request' answers the pending request
service_respond(r) ==
    /\ service_ready
    /\ pending # NoRequest
    /\ r.error_msg = RETRY => RetriesGiven < MaxRetries
    /\ reply' = r
    /\ pending' = NoRequest
    /\ UNCHANGED <<service_ready, op, phase, pc, arg_msg, resp, sleep_time, n_polls,
                   trace, error>>
    /\ UNCHANGED <<mgrVars, plnVars, solVars>>

\* the server node comes up or goes away
service_up ==
    /\ ~service_ready
    /\ service_ready' = TRUE
    /\ UNCHANGED <<op, phase, pc, arg_msg, resp, sleep_time, n_polls, pending, reply,
                   trace, error>>
    /\ UNCHANGED <<mgrVars, plnVars, solVars>>

service_down ==
    /\ service_ready
    /\ service_ready' = FALSE
    /\ UNCHANGED <<op, phase, pc, arg_msg, resp, sleep_time, n_polls, pending, reply,
                   trace, error>>
    /\ UNCHANGED <<mgrVars, plnVars, solVars>>

\* the steps of the calling thread
ThreadStep ==
    \/ poll_service /\ HarnessIdle
    \/ first_call /\ HarnessIdle
    \/ receive_response /\ HarnessIdle
    \/ check_retry /\ HarnessIdle
    \/ do_sleep /\ HarnessIdle
    \/ resend /\ HarnessIdle
    \/ return_from_request /\ HarnessIdle

NextAgent ==
    \/ (\E m \in ManagerRequestTypes : call_request_and_wait_for_response(m)) /\ HarnessIdle
    \/ disconect_and_reconnect /\ HarnessIdle
    \/ poll_service /\ HarnessIdle
    \/ first_call /\ HarnessIdle
    \/ receive_response /\ HarnessIdle
    \/ check_retry /\ HarnessIdle
    \/ do_sleep /\ HarnessIdle
    \/ resend /\ HarnessIdle
    \/ return_from_request /\ HarnessIdle
    \/ (\E r \in RetryResponses \cup FinalResponses : service_respond(r)) /\ HarnessIdle
    \/ service_up /\ HarnessIdle
    \/ service_down /\ HarnessIdle

-----------------------------------------------------------------------------
(* AgentTestExecutor.sol_callback (utils.py), run by the executor thread    *)
(* for every AgentPaths message delivered on 'agent_paths'.                 *)

\* a path point: only its translation is read
PathPoint(x, y, z) == [translation |-> Vector3(x, y, z)]
\* arch_interfaces.msg.AssignedPath and AgentPaths
AssignedPath(id, path) == [agent_id |-> id, path |-> path]
AgentPaths(agent_paths) == [agent_paths |-> agent_paths]

Paths == {<<>>, <<PathPoint(0, 5, 1)>>, <<PathPoint(2, 7, 3), PathPoint(0, 5, 1)>>}
AssignedPaths == {AssignedPath(a, p) : a \in AgentIds, p \in Paths}
AgentPathsMsgs ==
    {AgentPaths(l) : l \in UNION {[1..n -> AssignedPaths] : n \in 0..MaxPathsLen}}

\* the log entries
PathPublished(id, string_solution) ==
    [text |-> "PATH PUBLISHED FOR", agent_id |-> id, solution |-> string_solution]
NoPathPublished(id) ==
    [text |-> "NO PATH PUBLISHED FOR", agent_id |-> id, solution |-> <<>>]

SolInit(ids) ==
    /\ agent_id \in ids
    /\ last_msg = AgentPaths(<<>>)
    /\ log = <<>>

\* line 103: '-->'.join([str((point.translation.x, point.translation.z)) ...]):
\* the (x, z) pairs of the path points, in path order
StringSolution(path) ==
    [k \in 1..Len(path) |-> <<path[k].translation.x, path[k].translation.z>>]

RECURSIVE C10_ScanPaths_no_return(_, _, _)
C10_ScanPaths_no_return(agent_paths, i, self_id) ==
    IF i > Len(agent_paths)
    THEN <<NoPathPublished(self_id)>>
    ELSE IF agent_paths[i].agent_id = self_id
         THEN <<PathPublished(self_id, StringSolution(agent_paths[i].path))>>
              \o C10_ScanPaths_no_return(agent_paths, i + 1, self_id)
         ELSE C10_ScanPaths_no_return(agent_paths, i + 1, self_id)

\* lines 101-107: the entries the scan from index i on writes to the log:
\* the loop returns at the first match, the line after the loop logs "not found"
RECURSIVE ScanPaths(_, _, _)
ScanPaths(agent_paths, i, self_id) ==
    IF i > Len(agent_paths)
    THEN <<NoPathPublished(self_id)>>
    ELSE IF agent_paths[i].agent_id = self_id
         THEN <<PathPublished(self_id, StringSolution(agent_paths[i].path))>>
         ELSE ScanPaths(agent_paths, i + 1, self_id)

\* where request_and_wait_for_response blocks its calling thread: the readiness
\* poll (lines 87-88), cli.call (lines 89, 93) and the sleep after RETRY (line 92)
Blocked == {"poll", "wait", "sleep"}

C14_sol_callback_on_calling_thread(msg) ==
    /\ pc \notin Blocked
    /\ Len(log) < MaxPathsMsgs
    /\ log' = log \o ScanPaths(msg.agent_paths, 1, agent_id)
    /\ last_msg' = msg
    /\ UNCHANGED agent_id
    /\ UNCHANGED <<mgrVars, plnVars, agtVars>>

\* AgentTestExecutor.sol_callback(msg)
sol_callback(msg) ==
    /\ Len(log) < MaxPathsMsgs
    /\ log' = log \o ScanPaths(msg.agent_paths, 1, agent_id)
    /\ last_msg' = msg
    /\ UNCHANGED agent_id
    /\ UNCHANGED <<mgrVars, plnVars, agtVars>>

\* the executor thread runs sol_callback for a delivered message; the observer
\* keeps where the calling thread stands at that moment
run_sol_callback(msg) ==
    /\ sol_callback(msg)
    /\ cb_pcs' = cb_pcs \cup {pc}
    /\ UNCHANGED <<client_calls, tstVars>>

NextSol == (\E msg \in AgentPathsMsgs : sol_callback(msg)) /\ HarnessIdle

-----------------------------------------------------------------------------
(* test_manager.py: the test functions and main, run by the main thread.   *)
(* tpc is the source line the main thread executes next; the executor      *)
(* thread runs the callbacks of the nodes while the executor spins.        *)

TestFunctions == {"test_transform_broadcast", "test_agent_requests",
                  "test_goal_input", "test_manager_live_request"}
\* main, line 143-148: the list it runs
MainTests == <<"test_goal_input", "test_manager_live_request">>
\* a run is main, or one test function called on its own
TestLists == {MainTests} \cup {<<t>> : t \in TestFunctions}
\* the first line of each test function, the loop head and line 152 of main
FirstLine == [test_transform_broadcast |-> 53, test_agent_requests |-> 73,
              test_goal_input |-> 92, test_manager_live_request |-> 114]
MainLoop == 149
MainSuccess == 152

\* the main thread is at line l of test function t
At(t, l) ==
    /\ ~failed
    /\ ti \in 1..Len(tests)
    /\ tests[ti] = t
    /\ tpc = l

\* a statement of test t at line l that changes nodes' state only
Advance(t, l, next) ==
    /\ At(t, l)
    /\ tpc' = next
    /\ UNCHANGED <<tests, ti, rclpy_ok, nodes, executor, thread, life, reads, failed>>
    /\ UNCHANGED obsVars

\* a statement that changes no node's state
NodesIdle == UNCHANGED <<mgrVars, plnVars, agtVars, solVars, obsVars>>

\* rclpy.init(): a fresh context, nothing in flight; raises if the context is
\* still initialised
rclpy_init(t, l, next) ==
    /\ At(t, l)
    /\ tpc' = next
    /\ failed' = rclpy_ok
    /\ rclpy_ok' = TRUE
    /\ life' = Append(life, <<"init">>)
    /\ unassigned_agents' = <<>>
    /\ unassigned_goals' = <<>>
    /\ plan_computed' = FALSE
    /\ n_handled' = 0
    /\ last_call' = [request |-> NoRequest, response |-> NoResponse,
                     before |-> <<>>, goals |-> <<>>]
    /\ goal_calls' = <<>>
    /\ goals_topic' = <<>>
    /\ n_calls' = 0
    /\ srv_requests' = <<>>
    /\ srv_responses' = <<>>
    /\ response' = [call |-> 0, done |-> FALSE, result |-> NoResponse]
    /\ UNCHANGED <<tests, ti, nodes, executor, thread, reads>>
    /\ UNCHANGED <<plnVars, agtVars, solVars, obsVars>>

\* a node constructor: Manager(), GoalPublisher(), ManagerTestClient(), ...
create_node(t, l, next, n) ==
    /\ At(t, l)
    /\ tpc' = next
    /\ nodes' = nodes \cup {n}
    /\ life' = Append(life, <<"create", n>>)
    /\ UNCHANGED <<tests, ti, rclpy_ok, executor, thread, reads, failed>>
    /\ NodesIdle

\* executor = MultiThreadedExecutor(); executor.add_node(...);
\* executor_thread = Thread(target=executor.spin, daemon=True)
create_executor(t, l, next) ==
    /\ At(t, l)
    /\ tpc' = next
    /\ executor' = "created"
    /\ UNCHANGED <<tests, ti, rclpy_ok, nodes, thread, life, reads, failed>>
    /\ NodesIdle

\* executor_thread.start()
thread_start(t, l, next) ==
    /\ At(t, l)
    /\ tpc' = next
    /\ executor' = "spinning"
    /\ thread' = "running"
    /\ life' = Append(life, <<"start">>)
    /\ UNCHANGED <<tests, ti, rclpy_ok, nodes, reads, failed>>
    /\ NodesIdle

\* nothing is in flight to the Manager, to the client or to the Planner
Delivered ==
    /\ goals_topic = <<>>
    /\ srv_requests = <<>>
    /\ srv_responses = <<>>
    /\ tf_topic = <<>>

C15_sleep_until_delivered(t, l, next) ==
    /\ At(t, l)
    /\ Delivered
    /\ tpc' = next
    /\ UNCHANGED <<tests, ti, rclpy_ok, nodes, executor, thread, life, reads, failed>>
    /\ NodesIdle

\* sleep(0.5): the main thread goes on after it, whatever the executor thread
\* has done meanwhile
sleep(t, l, next) ==
    /\ At(t, l)
    /\ tpc' = next
    /\ UNCHANGED <<tests, ti, rclpy_ok, nodes, executor, thread, life, reads, failed>>
    /\ NodesIdle

\* assert <ok>: reads the nodes' state now; raises if ok is false.  settled
\* tells whether what the statement waits for had been delivered and handled.
assert_stmt(t, l, next, ok, settled) ==
    /\ At(t, l)
    /\ reads' = Append(reads, [test |-> t, line |-> l, ok |-> ok, settled |-> settled])
    /\ IF ok
       THEN /\ tpc' = next
            /\ life' = Append(life, <<"assert">>)
            /\ UNCHANGED failed
       ELSE /\ failed' = TRUE
            /\ UNCHANGED <<tpc, life>>
    /\ UNCHANGED <<tests, ti, rclpy_ok, nodes, executor, thread>>
    /\ NodesIdle

\* executor.shutdown(): the executor stops running callbacks
executor_shutdown(t, l, next) ==
    /\ At(t, l)
    /\ tpc' = next
    /\ executor' = "shutdown"
    /\ life' = Append(life, <<"executor_shutdown">>)
    /\ UNCHANGED <<tests, ti, rclpy_ok, nodes, thread, reads, failed>>
    /\ NodesIdle

\* <node>.destroy_node()
destroy_node(t, l, next, n) ==
    /\ At(t, l)
    /\ tpc' = next
    /\ nodes' = nodes \ {n}
    /\ life' = Append(life, <<"destroy", n>>)
    /\ UNCHANGED <<tests, ti, rclpy_ok, executor, thread, reads, failed>>
    /\ NodesIdle

C18_rclpy_shutdown_skipped(t, l, next) ==
    /\ At(t, l)
    /\ tpc' = next
    /\ UNCHANGED <<tests, ti, rclpy_ok, nodes, executor, thread, life, reads, failed>>
    /\ NodesIdle

\* rclpy.shutdown()
rclpy_shutdown(t, l, next) ==
    /\ At(t, l)
    /\ tpc' = next
    /\ rclpy_ok' = FALSE
    /\ life' = Append(life, <<"shutdown">>)
    /\ UNCHANGED <<tests, ti, nodes, executor, thread, reads, failed>>
    /\ NodesIdle

\* executor_thread.join(): returns once executor.spin has returned
thread_join(t, l, next) ==
    /\ At(t, l)
    /\ thread = "finished"
    /\ tpc' = next
    /\ thread' = "joined"
    /\ life' = Append(life, <<"join">>)
    /\ UNCHANGED <<tests, ti, rclpy_ok, nodes, executor, reads, failed>>
    /\ NodesIdle

\* executor.spin returns on the executor thread after executor.shutdown()
spin_return ==
    /\ executor = "shutdown"
    /\ thread = "running"
    /\ thread' = "finished"
    /\ UNCHANGED <<tests, ti, tpc, rclpy_ok, nodes, executor, life, reads, failed>>
    /\ NodesIdle

\* executor.spin on the executor thread: one callback of a node it holds
spin ==
    /\ executor = "spinning"
    /\ thread = "running"
    /\ ~failed
    /\ \/ "manager" \in nodes /\ goal_callback
       \/ "manager" \in nodes /\ serve_agent_request
       \/ "client" \in nodes /\ deliver_response
       \/ "arena_broadcaster" \in nodes /\ broadcast_timer_callback
       \/ "planner" \in nodes /\ tf_callback
    /\ HarnessIdle

test_transform_broadcast ==
    LET t == "test_transform_broadcast" IN
    \/ rclpy_init(t, 53, 54)
    \/ create_node(t, 54, 55, "arena_broadcaster")
    \/ create_node(t, 55, 57, "planner")
    \/ create_executor(t, 57, 61)
    \/ thread_start(t, 61, 62)
    \/ sleep(t, 62, 63)
    \/ assert_stmt(t, 63, 66, "arena" \in get_all_frame_ids /\ Cardinality(get_all_frame_ids) = 1,
                   Len(tf_topic) < Len(tf_sent))
    \/ executor_shutdown(t, 66, 67)
    \/ destroy_node(t, 67, 68, "arena_broadcaster")
    \/ destroy_node(t, 68, 69, "planner")
    \/ rclpy_shutdown(t, 69, 70)
    \/ thread_join(t, 70, MainSuccess)

test_agent_requests ==
    LET t == "test_agent_requests" IN
    \/ rclpy_init(t, 73, 74)
    \/ create_node(t, 74, 79, "manager")
    \/ Advance(t, 79, 81) /\ test_agent_callback(IDLE, "agent_1")
    \/ assert_stmt(t, 81, 84, unassigned_agents = <<"agent_1">>, TRUE)
    \/ Advance(t, 84, 86) /\ test_agent_callback(AGENT_DISCONNECTED, "agent_1")
    \/ assert_stmt(t, 86, 88, Len(unassigned_agents) = 0, TRUE)
    \/ destroy_node(t, 88, 89, "manager")
    \/ rclpy_shutdown(t, 89, MainSuccess)

test_goal_input ==
    LET t == "test_goal_input"
        goal_1 == Position(50, 50, 1)
    IN
    \/ rclpy_init(t, 92, 93)
    \/ create_node(t, 93, 94, "manager")
    \/ create_node(t, 94, 96, "goal_publisher")
    \/ create_executor(t, 96, 100)
    \/ thread_start(t, 100, 103)
    \/ Advance(t, 103, 104) /\ publish_goal(goal_1)
    \/ sleep(t, 104, 105)
    \/ assert_stmt(t, 105, 107, unassigned_goals = <<goal_1>>, goals_topic = <<>>)
    \/ executor_shutdown(t, 107, 108)
    \/ destroy_node(t, 108, 109, "manager")
    \/ destroy_node(t, 109, 110, "goal_publisher")
    \/ rclpy_shutdown(t, 110, 111)
    \/ thread_join(t, 111, MainSuccess)

test_manager_live_request ==
    LET t == "test_manager_live_request" IN
    \/ rclpy_init(t, 114, 115)
    \/ create_node(t, 115, 116, "manager")
    \/ create_node(t, 116, 117, "goal_publisher")
    \/ create_node(t, 117, 119, "client")
    \/ create_executor(t, 119, 124)
    \/ thread_start(t, 124, 126)
    \/ Advance(t, 126, 127) /\ publish_goal(Position(50, 50, 1))
    \/ Advance(t, 127, 129) /\ create_request(IDLE, "agent_1")
    \/ sleep(t, 129, 131)
    \/ assert_stmt(t, 131, 132, unassigned_agents = <<"agent_1">>, srv_requests = <<>>)
    \/ assert_stmt(t, 132, 133, response.done /\ response.result.error_msg = WAIT_PLAN,
                   srv_requests = <<>> /\ srv_responses = <<>>)
    \/ assert_stmt(t, 133, 135, unassigned_goals # <<>>, goals_topic = <<>>)
    \/ executor_shutdown(t, 135, 136)
    \/ destroy_node(t, 136, 137, "manager")
    \/ destroy_node(t, 137, 138, "goal_publisher")
    \/ destroy_node(t, 138, 139, "client")
    \/ rclpy_shutdown(t, 139, 140)
    \/ thread_join(t, 140, MainSuccess)

\* main, lines 149-151: the next test of the list is called
main_run_test ==
    /\ ~failed
    /\ tpc = MainLoop
    /\ ti < Len(tests)
    /\ ti' = ti + 1
    /\ tpc' = FirstLine[tests[ti + 1]]
    /\ life' = <<>>
    /\ UNCHANGED <<tests, rclpy_ok, nodes, executor, thread, reads, failed>>
    /\ NodesIdle

\* main, line 152: the test has returned
main_success ==
    /\ ~failed
    /\ tpc = MainSuccess
    /\ tpc' = MainLoop
    /\ UNCHANGED <<tests, ti, rclpy_ok, nodes, executor, thread, life, reads, failed>>
    /\ NodesIdle

\* the steps of the main thread
MainThread ==
    \/ main_run_test
    \/ main_success
    \/ test_transform_broadcast
    \/ test_agent_requests
    \/ test_goal_input
    \/ test_manager_live_request

-----------------------------------------------------------------------------
(* Specifications *)

InitManager ==
    /\ MgrInit
    /\ PlnInit({ArenaBroadcaster})
    /\ AgtInit({FALSE})
    /\ SolInit({"agent_1"})
    /\ ObsInit
    /\ NoTestInit
SpecManager == InitManager /\ [][NextManager]_vars

\* the Manager behind a spinning executor, as in test_goal_input and
\* test_manager_live_request: requests reach it through the service only
NextLive ==
    \/ (\E g \in Goals : publish_goal(g)) /\ HarnessIdle
    \/ goal_callback /\ HarnessIdle
    \/ (\E m \in ManagerRequestTypes, a \in AgentIds : create_request(m, a)) /\ HarnessIdle
    \/ serve_agent_request /\ HarnessIdle
    \/ deliver_response /\ HarnessIdle
    \/ assign_plan /\ HarnessIdle
SpecLive == InitManager /\ [][NextLive]_vars
\* the executor thread spins (test_manager.py lines 96-100, 119-124): a goal
\* in flight is eventually handed to the Manager's callback
FairSpecLive == SpecLive /\ WF_vars(goal_callback /\ HarnessIdle)

\* the ManagerTestClient, called any number of times, and the service it calls
NextClient ==
    \/ \E m \in ManagerRequestTypes, a \in AgentIds : call_create_request(m, a)
    \/ serve_agent_request /\ HarnessIdle
    \/ deliver_response /\ HarnessIdle
SpecClient == InitManager /\ [][NextClient]_vars

InitPlanner ==
    /\ MgrInit
    /\ PlnInit(FFConfigs)
    /\ AgtInit({FALSE})
    /\ SolInit({"agent_1"})
    /\ ObsInit
    /\ NoTestInit
SpecPlanner == InitPlanner /\ [][NextPlanner]_vars
\* the executor thread spins (test_manager.py lines 57-61): the timer fires and
\* a transform in flight is eventually handed to the Planner
FairSpecPlanner ==
    SpecPlanner /\ WF_vars(broadcast_timer_callback /\ HarnessIdle) /\ WF_vars(tf_callback /\ HarnessIdle)

InitAgent ==
    /\ MgrInit
    /\ PlnInit({ArenaBroadcaster})
    /\ AgtInit(BOOLEAN)
    /\ SolInit(AgentIds)
    /\ ObsInit
    /\ NoTestInit
SpecAgent == InitAgent /\ [][NextAgent]_vars
\* the calling thread keeps running; the server and the service's availability
\* are not constrained
FairSpecAgent == SpecAgent /\ WF_vars(ThreadStep)

\* one AgentTestExecutor with both threads: the caller of
\* request_and_wait_for_response and the executor thread that runs sol_callback
ConcResponses == {Response(RETRY, ManagerRetryArgs), Response(WAIT_PLAN, <<>>)}
ConcMsgs == {m \in AgentPathsMsgs :
               /\ Len(m.agent_paths) <= 1
               /\ \A i \in 1..Len(m.agent_paths) : Len(m.agent_paths[i].path) = 1}
InitConc ==
    /\ MgrInit
    /\ PlnInit({ArenaBroadcaster})
    /\ AgtInit(BOOLEAN)
    /\ SolInit({"agent_1"})
    /\ ObsInit
    /\ NoTestInit
NextConc ==
    \/ call_request_and_wait_for_response(IDLE) /\ HarnessIdle
    \/ ThreadStep
    \/ (\E r \in ConcResponses : service_respond(r)) /\ HarnessIdle
    \/ service_up /\ HarnessIdle
    \/ \E msg \in ConcMsgs : run_sol_callback(msg)
SpecConc == InitConc /\ [][NextConc]_vars

\* a run of test_manager.py: the main thread and the executor thread
InitTests ==
    /\ MgrInit
    /\ PlnInit({ArenaBroadcaster})
    /\ AgtInit({FALSE})
    /\ SolInit({"agent_1"})
    /\ ObsInit
    /\ tests \in TestLists
    /\ ti = 0
    /\ tpc = MainLoop
    /\ rclpy_ok = FALSE
    /\ nodes = {}
    /\ executor = "none"
    /\ thread = "none"
    /\ life = <<>>
    /\ reads = <<>>
    /\ failed = FALSE
NextTests ==
    \/ MainThread
    \/ spin
    \/ spin_return
SpecTests == InitTests /\ [][NextTests]_vars

InitSol ==
    /\ MgrInit
    /\ PlnInit({ArenaBroadcaster})
    /\ AgtInit({FALSE})
    /\ SolInit(AgentIds)
    /\ ObsInit
    /\ NoTestInit
SpecSol == InitSol /\ [][NextSol]_vars

-----------------------------------------------------------------------------
(* Properties of the Manager, checked under SpecManager / FairSpecLive *)

\* the step is an invocation of Manager.agent_callback with this request type
Handles(agent_msg) ==
    /\ n_handled' = n_handled + 1
    /\ last_call'.request.agent_msg = agent_msg

\* C1: when agent_callback handles an IDLE request for an agent id that is not
\* in unassigned_agents, the id is in unassigned_agents exactly once afterwards;
\* on a Manager with no agents, unassigned_agents is then the one-element list
\* of that id.
C1_IdleAddsAgentOnce ==
    [][(Handles(IDLE) /\ ~In(last_call'.request.agent_id, unassigned_agents))
         => /\ Count(last_call'.request.agent_id, unassigned_agents') = 1
            /\ (unassigned_agents = <<>>
                  => unassigned_agents' = <<last_call'.request.agent_id>>)]_vars

C1_Witness ==
    /\ n_handled = 1
    /\ last_call.request = Request(IDLE, "agent_1")
    /\ last_call.before = <<>>
    /\ unassigned_agents = <<"agent_1">>

\* C2: when agent_callback handles an AGENT_DISCONNECTED request for an agent id
\* that is in unassigned_agents, the id is absent from unassigned_agents
\* afterwards and the collection is shorter by the entries of that id.
C2_DisconnectRemovesAgent ==
    [][(Handles(AGENT_DISCONNECTED) /\ In(last_call'.request.agent_id, unassigned_agents))
         => /\ ~In(last_call'.request.agent_id, unassigned_agents')
            /\ Len(unassigned_agents') < Len(unassigned_agents)
            /\ Len(unassigned_agents') =
                 Len(unassigned_agents)
                   - Count(last_call'.request.agent_id, unassigned_agents)]_vars

C2_Witness ==
    /\ n_handled = 2
    /\ last_call.request = Request(AGENT_DISCONNECTED, "agent_1")
    /\ last_call.before = <<"agent_1">>
    /\ unassigned_agents = <<>>

\* C3: an IDLE request handled while goals are pending and no plan has been
\* computed is answered WAIT_PLAN, not RETRY, and handling it leaves
\* unassigned_goals as it was: every pending goal is still unassigned after
\* the response.
C3_IdleWithGoalsWaitsForPlan ==
    [][(Handles(IDLE) /\ unassigned_goals # <<>> /\ ~plan_computed)
         => /\ last_call'.response.error_msg = WAIT_PLAN
            /\ last_call'.response.error_msg # RETRY
            /\ unassigned_goals' = unassigned_goals]_vars

C3_Witness ==
    /\ n_calls = 1
    /\ response.done
    /\ response.result.error_msg = WAIT_PLAN
    /\ last_call.request = Request(IDLE, "agent_1")
    /\ last_call.goals = <<Position(50, 50, 1)>>
    /\ unassigned_goals = <<Position(50, 50, 1)>>
    /\ unassigned_agents = <<"agent_1">>
    /\ ~plan_computed

OneGoalNoRequest == Len(goal_calls) = 1 /\ n_calls = 0

\* C4: when one goal has been published through publish_goal, no other goal has
\* been published and no agent request has been made, the goal reaches the
\* Manager: once it is no longer in flight, unassigned_goals holds exactly that
\* goal, once, and nothing else, and under the executor's fairness that
\* eventually happens.
C4_GoalReachesManager ==
    /\ [](OneGoalNoRequest
            => /\ goals_topic = <<>> => unassigned_goals = goal_calls
               /\ goals_topic # <<>> => unassigned_goals = <<>>)
    /\ (OneGoalNoRequest ~> (unassigned_goals = goal_calls \/ ~OneGoalNoRequest))

C4_Witness ==
    /\ OneGoalNoRequest
    /\ goals_topic = <<>>
    /\ goal_calls = <<Position(50, 20, 2)>>
    /\ unassigned_goals = <<Position(50, 20, 2)>>

-----------------------------------------------------------------------------
(* Properties of the Planner, checked under FairSpecPlanner *)

OnlyArenaBroadcast == ff = ArenaBroadcaster /\ TestBroadcasts = 0

\* C5: when the FixedFrameBroadcaster is the one with parent 'world' and child
\* 'arena' and nothing else is broadcast, the Planner's known frame ids never
\* hold anything but 'arena', they are exactly {'arena'} once a broadcast
\* transform has been received, and under the executor's fairness that
\* eventually happens; the parent id 'world' is not a known frame.
C5_ArenaIsTheOnlyFrame ==
    /\ [](OnlyArenaBroadcast
            => /\ get_all_frame_ids \subseteq {"arena"}
               /\ Len(tf_topic) < Len(tf_sent)
                    => ("arena" \in get_all_frame_ids
                        /\ Cardinality(get_all_frame_ids) = 1))
    /\ (OnlyArenaBroadcast
          ~> (("arena" \in get_all_frame_ids /\ Cardinality(get_all_frame_ids) = 1)
               \/ ~OnlyArenaBroadcast))

C5_Witness ==
    /\ OnlyArenaBroadcast
    /\ n_ticks = 2
    /\ tf_topic = <<>>
    /\ get_all_frame_ids = {"arena"}

-----------------------------------------------------------------------------
(* Properties of the calling thread, checked under SpecAgent / FairSpecAgent. *)
(* One invocation of request_and_wait_for_response is the part of the trace *)
(* between two "return" events (or from the start).                         *)

ReturnsBefore(j) == {i \in 1..(j - 1) : trace[i].ev = "return"}
\* index of the event before the invocation that event j belongs to
SegStart(j) ==
    IF ReturnsBefore(j) = {} THEN 0
    ELSE CHOOSE i \in ReturnsBefore(j) : \A k \in ReturnsBefore(j) : k <= i
\* the events of one kind of that invocation, before event j
SegIdx(j, kind) == {i \in (SegStart(j) + 1)..(j - 1) : trace[i].ev = kind}
IsRetry(i) == trace[i].response.error_msg = RETRY
\* the events of the invocation that is running now
CurIdx(kind) == SegIdx(Len(trace) + 1, kind)
InExchange == pc \in {"call", "wait", "check", "sleep", "recall"}

\* C6: request_and_wait_for_response returns only after a non-RETRY response:
\* at every return the last response received in the invocation is not RETRY,
\* every earlier one is RETRY, and the requests sent are the RETRY responses
\* received plus one.
C6_ReturnsAfterFinalResponse ==
    /\ pc = "done" => (resp # NoResponse /\ resp.error_msg # RETRY)
    /\ \A j \in 1..Len(trace) :
          trace[j].ev = "return" =>
             LET R == SegIdx(j, "response")
                 Q == SegIdx(j, "request")
             IN  /\ R # {}
                 /\ \A i \in R : IsRetry(i) <=> (\E k \in R : k > i)
                 /\ Cardinality(Q) = Cardinality({i \in R : IsRetry(i)}) + 1

C6_Witness ==
    /\ pc = "done"
    /\ op = "request"
    /\ Cardinality({i \in 1..Len(trace) : trace[i].ev = "response" /\ IsRetry(i)}) = 2
    /\ Len(Events("request")) = 3

\* C7: a request that is not the first of its invocation follows the previous
\* request after exactly a RETRY response and one sleep, the sleep lasts
\* float(args[0]) of that response, and the request is equal (agent_msg and
\* agent_id) to the previous one, hence to the first.
C7_ResendAfterServerDelay ==
    \A j \in 1..Len(trace) :
       trace[j].ev = "request" =>
          \/ j > 1 /\ trace[j - 1].ev = "ready"
          \/ /\ j > 3
             /\ trace[j - 3].ev = "request"
             /\ trace[j - 3].request = trace[j].request
             /\ trace[j - 2].ev = "response"
             /\ trace[j - 2].response.error_msg = RETRY
             /\ trace[j - 1].ev = "sleep"
             /\ trace[j - 1].t = FloatOf(trace[j - 2].response.args[1])

C7_Witness ==
    /\ Len(Events("request")) = 3
    /\ arg_msg = AGENT_DISCONNECTED
    /\ \E j \in 1..Len(trace) :
          /\ j > 6
          /\ trace[j].ev = "request"
          /\ trace[j - 1] = EvSleep(2000)
          /\ trace[j - 2] = EvResponse(Response(RETRY, <<"2", "0.5">>))
          /\ trace[j - 4] = EvSleep(500)
          /\ trace[j - 5] = EvResponse(Response(RETRY, <<"0.5">>))

\* C8: the retry loop has no attempt limit and no failure escalation: after n
\* RETRY responses and nothing else the caller sends request n + 1 (for every n
\* the server's bound allows); the call returns once a non-RETRY response has
\* arrived, it returns only after the service was seen ready and a non-RETRY
\* response was received, and it never raises.
C8_UnboundedRetry ==
    /\ [](~error /\ pc # "raised")
    /\ [](\A j \in 1..Len(trace) :
            trace[j].ev = "return" =>
               /\ SegIdx(j, "ready") # {}
               /\ \E i \in SegIdx(j, "response") : ~IsRetry(i))
    /\ \A n \in 0..MaxRetries :
          (InExchange /\ Cardinality(CurIdx("response")) = n
             /\ \A i \in CurIdx("response") : IsRetry(i))
            ~> (Cardinality(CurIdx("request")) >= n + 1)
    /\ ((pc = "wait" /\ reply # NoResponse /\ reply.error_msg # RETRY)
          ~> (trace # <<>> /\ Last(trace).ev = "return"))

C8_Witness ==
    /\ pc = "wait"
    /\ Cardinality(CurIdx("response")) = MaxRetries
    /\ \A i \in CurIdx("response") : IsRetry(i)
    /\ Cardinality(CurIdx("request")) = MaxRetries + 1
    /\ ~error

\* C9: no request is sent before the service has been seen ready: every
\* request of an invocation follows a readiness poll of that invocation that
\* returned true, a poll is taken as true only when the service is ready, a
\* failed poll is followed by a sleep, and as long as no poll has returned
\* true no request has been sent and the call has not returned.
C9_NoRequestBeforeReady ==
    /\ [](\A j \in 1..Len(trace) :
            trace[j].ev = "request" => SegIdx(j, "ready") # {})
    /\ [](Events("ready") = <<>>
            => (Events("request") = <<>> /\ Events("return") = <<>>
                /\ pending = NoRequest /\ pc # "done"))
    /\ [][(Len(trace') = Len(trace) + 1 /\ Last(trace').ev = "ready") => service_ready]_vars
    /\ [][n_polls' # n_polls
             => (~service_ready /\ pc' = "poll"
                 /\ trace' = Append(trace, EvSleep(PollSleep)))]_vars

C9_Witness ==
    /\ Len(trace) >= 4
    /\ trace[2] = EvSleep(PollSleep)
    /\ trace[3] = EvReady
    /\ trace[4].ev = "request"
    /\ n_polls = 1

-----------------------------------------------------------------------------
(* Properties of sol_callback, checked under SpecSol *)

\* the indices of the entries of the message that carry the id
Matches(msg, id) == {i \in 1..Len(msg.agent_paths) : msg.agent_paths[i].agent_id = id}
FirstMatch(msg, id) == CHOOSE i \in Matches(msg, id) : \A k \in Matches(msg, id) : i <= k

\* C10: for every AgentPaths message sol_callback writes exactly one log entry:
\* 'PATH PUBLISHED' with the (x, z) pairs of the path points, in order, of the
\* first entry whose agent_id is the executor's, or 'NO PATH PUBLISHED' when no
\* entry carries it; other entries and later matching entries do not matter.
C10_OneLogEntryPerMessage ==
    [][(log' # log \/ last_msg' # last_msg) =>
         /\ Len(log') = Len(log) + 1
         /\ SubSeq(log', 1, Len(log)) = log
         /\ Last(log').agent_id = agent_id
         /\ IF Matches(last_msg', agent_id) = {}
            THEN Last(log').text = "NO PATH PUBLISHED FOR"
            ELSE LET path == last_msg'.agent_paths[FirstMatch(last_msg', agent_id)].path
                 IN  /\ Last(log').text = "PATH PUBLISHED FOR"
                     /\ Len(Last(log').solution) = Len(path)
                     /\ \A k \in 1..Len(path) :
                           Last(log').solution[k] =
                             <<path[k].translation.x, path[k].translation.z>>]_vars

C10_Witness ==
    /\ agent_id = "agent_1"
    /\ last_msg = AgentPaths(<<AssignedPath("agent_2", <<PathPoint(0, 5, 1)>>),
                               AssignedPath("agent_1", <<PathPoint(2, 7, 3),
                                                         PathPoint(0, 5, 1)>>)>>)
    /\ log = <<NoPathPublished("agent_1"),
               PathPublished("agent_1", <<<<2, 3>>, <<0, 1>>>>)>>

-----------------------------------------------------------------------------
(* Properties of the harness nodes *)

\* C11: every create_request call sends exactly one request, carrying the
\* agent_msg and agent_id of the call, and the client never sends it again,
\* whatever the response is and also while none has arrived: the requests in
\* flight and the requests the service has handled are as many as the calls,
\* and the requests in flight are those of the latest calls, in call order.
\* After a call, self.response belongs to the most recent call and holds no
\* result until that call's response is delivered.
C11_OneRequestPerCall ==
    /\ Len(client_calls) = n_calls
    /\ Len(srv_requests) + n_handled = n_calls
    /\ \A i \in 1..Len(srv_requests) :
          /\ srv_requests[i].call = n_handled + i
          /\ srv_requests[i].request = client_calls[n_handled + i]
    /\ n_handled > 0 => last_call.request = client_calls[n_handled]
    /\ n_calls > 0 =>
          /\ response.call = n_calls
          /\ ~response.done => response.result = NoResponse
          /\ response.done => /\ n_handled = n_calls
                              /\ response.result = last_call.response

C11_Witness ==
    /\ client_calls = <<Request(IDLE, "agent_1"), Request(AGENT_DISCONNECTED, "agent_2")>>
    /\ n_handled = 1
    /\ last_call.response.error_msg = RETRY
    /\ srv_responses = <<>>
    /\ Len(srv_requests) = 1
    /\ response.call = 2
    /\ ~response.done

\* C12: publish_goal hands the given goal to the 'goals' publisher once per
\* call and unchanged, with no buffering and no retry: a call appends exactly
\* its goal to the messages in flight, no message enters the topic without a
\* call, and (until a plan assigns a goal) the goals received followed by the
\* goals in flight are the goals of the calls, in call order.
C12_OneMessagePerPublishCall ==
    /\ [][goal_calls' # goal_calls
            => /\ Len(goal_calls') = Len(goal_calls) + 1
               /\ SubSeq(goal_calls', 1, Len(goal_calls)) = goal_calls
               /\ goals_topic' = Append(goals_topic, Last(goal_calls'))]_vars
    /\ [][goal_calls' = goal_calls
            => (goals_topic' = goals_topic
                \/ (goals_topic # <<>> /\ goals_topic' = Tail(goals_topic)))]_vars
    /\ [](~plan_computed => unassigned_goals \o goals_topic = goal_calls)

C12_Witness ==
    /\ goal_calls = <<Position(50, 20, 2), Position(50, 50, 1)>>
    /\ goals_topic = <<Position(50, 50, 1)>>
    /\ unassigned_goals = <<Position(50, 20, 2)>>
    /\ ~plan_computed

\* the transform the FixedFrameBroadcaster is configured to send
FFTransform == TransformStamped(ff.parent_id, ff.child_id, ff.pos)

\* C13: every timer tick of the FixedFrameBroadcaster emits exactly one
\* transform, with frame_id the configured parent id, child_frame_id the
\* configured child id and translation the configured position; a tick leaves
\* parent_id, child_id and pos unchanged, so the transforms it has emitted are
\* as many as the ticks and all the same.
C13_OneTransformPerTick ==
    /\ [][n_ticks' # n_ticks
            => /\ n_ticks' = n_ticks + 1
               /\ Len(tf_sent') = Len(tf_sent) + 1
               /\ SubSeq(tf_sent', 1, Len(tf_sent)) = tf_sent
               /\ Last(tf_sent').frame_id = ff.parent_id
               /\ Last(tf_sent').child_frame_id = ff.child_id
               /\ Last(tf_sent').translation = ff.pos
               /\ tf_topic' = Append(tf_topic, Last(tf_sent'))
               /\ ff' = ff]_vars
    /\ [](Count(FFTransform, tf_sent) = n_ticks)

C13_Witness ==
    /\ ff = FixedFrameBroadcaster("arena", "agent_1", Vector3(1, 2, 3))
    /\ n_ticks = 2
    /\ tf_sent = <<TransformStamped("arena", "agent_1", Vector3(1, 2, 3)),
                   TransformStamped("arena", "agent_1", Vector3(1, 2, 3))>>

\* the log entry sol_callback writes for a message: a function of the message
\* and of the executor's agent_id alone
LogEntryFor(msg, id) ==
    IF Matches(msg, id) = {}
    THEN NoPathPublished(id)
    ELSE PathPublished(id, StringSolution(msg.agent_paths[FirstMatch(msg, id)].path))

\* C14: while the calling thread is blocked in request_and_wait_for_response
\* (polling readiness, waiting for a response, sleeping after RETRY) the
\* executor thread can still run sol_callback for a delivered message.  The two
\* share no mutable state: a sol_callback run changes nothing the calling
\* thread reads or writes and writes the log entry its message determines, a
\* step of the calling thread or of the service changes nothing sol_callback
\* reads or writes, and agent_id never changes; so the requests sent and the
\* log entry of each message are the same in every interleaving.
C14_CallbackRunsWhileCallerBlocked ==
    /\ [](Len(log) < MaxPathsMsgs => ENABLED (\E msg \in ConcMsgs : run_sol_callback(msg)))
    /\ [][(log' # log \/ last_msg' # last_msg \/ cb_pcs' # cb_pcs)
            => /\ agtVars' = agtVars
               /\ log' = Append(log, LogEntryFor(last_msg', agent_id))]_vars
    /\ [][agtVars' # agtVars => solVars' = solVars]_vars
    /\ [][agent_id' = agent_id]_vars
    /\ [](\A i \in 1..Len(trace) :
            trace[i].ev = "request" => trace[i].request = Request(IDLE, agent_id))

C14_Witness ==
    /\ cb_pcs = {"wait", "sleep"}
    /\ Len(log) = 2
    /\ Len(Events("request")) = 2
    /\ pc = "done"

\* the lines of test_manager.py that sleep before an assertion
SleepLines == {62, 104, 129}

\* C15: in the tests that run an executor thread nothing but the sleep stands
\* between the callbacks and the main thread's read: after sleep(0.5) the main
\* thread goes on whatever is still in flight, and an assertion of
\* test_goal_input, test_manager_live_request or test_transform_broadcast that
\* holds was evaluated after what it reads had been delivered and handled.
C15_SleepIsTheOnlyOrdering ==
    /\ [](\A i \in 1..Len(reads) : reads[i].ok => reads[i].settled)
    /\ []((~failed /\ ti >= 1 /\ tpc \in SleepLines) => ENABLED MainThread)

\* the main thread has read unassigned_goals while the goal was still in flight
C15_Witness ==
    /\ failed
    /\ tests[ti] = "test_goal_input"
    /\ tpc = 105
    /\ goals_topic = <<Position(50, 50, 1)>>
    /\ unassigned_goals = <<>>
    /\ Last(reads) = [test |-> "test_goal_input", line |-> 105,
                      ok |-> FALSE, settled |-> FALSE]

\* C17: disconect_and_reconnect sends AGENT_DISCONNECTED requests first and
\* IDLE requests after them, all with the executor's agent_id; an IDLE request
\* is sent only after the AGENT_DISCONNECTED exchange has returned on a
\* non-RETRY response, and the method is done only after the IDLE exchange has
\* received a non-RETRY response too.
C17_DisconnectThenReconnect ==
    op = "reconnect" =>
       LET reqs == Events("request")
       IN  /\ \A i \in 1..Len(reqs) :
                /\ reqs[i].request.agent_id = agent_id
                /\ reqs[i].request.agent_msg \in {AGENT_DISCONNECTED, IDLE}
                /\ i = 1 => reqs[i].request.agent_msg = AGENT_DISCONNECTED
                /\ \A k \in 1..(i - 1) :
                      reqs[k].request.agent_msg = IDLE
                        => reqs[i].request.agent_msg = IDLE
           /\ \A j \in 1..Len(trace) :
                (trace[j].ev = "request" /\ trace[j].request.agent_msg = IDLE)
                  => \E i \in 2..(j - 1) :
                        /\ trace[i].ev = "return"
                        /\ trace[i - 1].ev = "response"
                        /\ trace[i - 1].response.error_msg # RETRY
                        /\ \E k \in 1..(i - 1) :
                              /\ trace[k].ev = "request"
                              /\ trace[k].request.agent_msg = AGENT_DISCONNECTED
           /\ pc = "done"
                => /\ Len(Events("return")) = 2
                   /\ In(EvRequest(Request(IDLE, agent_id)), trace)
                   /\ trace[Len(trace) - 1].ev = "response"
                   /\ trace[Len(trace) - 1].response.error_msg # RETRY

C17_Witness ==
    /\ op = "reconnect"
    /\ pc = "done"
    /\ Len(Events("request")) = 4
    /\ Events("request")[2].request.agent_msg = AGENT_DISCONNECTED
    /\ Events("request")[3].request.agent_msg = IDLE

\* the place of a life-cycle event in the order of a test function
Rank(e) ==
    CASE e[1] = "init" -> 1
      [] e[1] = "create" -> 2
      [] e[1] = "start" -> 3
      [] e[1] = "assert" -> 4
      [] e[1] = "executor_shutdown" -> 5
      [] e[1] = "destroy" -> 6
      [] e[1] = "shutdown" -> 7
      [] e[1] = "join" -> 8
LifeCount(ev) == Cardinality({i \in 1..Len(life) : life[i][1] = ev})
NodesOf(ev) == {life[i][2] : i \in {k \in 1..Len(life) : life[k][1] = ev}}

\* C18: a test function that has reached its end has initialised the
\* middleware once and shut it down once, in the order init, create nodes,
\* start of the executor thread, assertions, executor shutdown, destroy of every
\* node it created, middleware shutdown, join of the executor thread.  main
\* calls the tests one after another in list order and every test starts with
\* the middleware uninitialised.  After a failing assertion the main thread
\* takes no further step: no later test, no teardown of the failing test.
C18_TestLifeCycle ==
    /\ [](tpc = MainSuccess =>
            /\ LifeCount("init") = 1
            /\ LifeCount("shutdown") = 1
            /\ \A i, j \in 1..Len(life) : i < j => Rank(life[i]) <= Rank(life[j])
            /\ NodesOf("create") # {}
            /\ NodesOf("destroy") = NodesOf("create")
            /\ LifeCount("create") = Cardinality(NodesOf("create"))
            /\ LifeCount("destroy") = Cardinality(NodesOf("create"))
            /\ LifeCount("assert") >= 1
            /\ LifeCount("start") <= 1
            /\ LifeCount("executor_shutdown") = LifeCount("start")
            /\ LifeCount("join") = LifeCount("start")
            /\ nodes = {}
            /\ ~rclpy_ok)
    /\ []((ti >= 1 /\ tpc = FirstLine[tests[ti]]) => (~rclpy_ok /\ life = <<>>))
    /\ [][ti' # ti => /\ ti' = ti + 1
                      /\ tpc = MainLoop
                      /\ tpc' = FirstLine[tests[ti']]]_vars
    /\ [](failed =>
            /\ rclpy_ok
            /\ \A i \in 1..Len(life) : Rank(life[i]) <= 4
            /\ nodes = NodesOf("create")
            /\ nodes # {}
            /\ ~Last(reads).ok
            /\ tpc = Last(reads).line)
    /\ [][failed => tstVars' = tstVars]_vars

C18_Witness ==
    /\ tests = MainTests
    /\ ti = 2
    /\ tpc = MainSuccess
    /\ Len(reads) = 4
    /\ life = <<<<"init">>, <<"create", "manager">>, <<"create", "goal_publisher">>,
                <<"create", "client">>, <<"start">>,
                <<"assert">>, <<"assert">>, <<"assert">>, <<"executor_shutdown">>,
                <<"destroy", "manager">>, <<"destroy", "goal_publisher">>,
                <<"destroy", "client">>, <<"shutdown">>, <<"join">>>>

====
